---- MODULE Spec2Model ----
(***************************************************************************)
(* Door monitor (module.go): a polling goroutine samples a reed switch     *)
(* every 250 ms, keeps doorState/openTime behind a mutex, drives three     *)
(* indicator lights and triggers a data-manager sync on transitions;       *)
(* GetReadings / DoCommand report the derived state to callers.            *)
(*                                                                         *)
(* Time is counted in ticker periods (250 ms).  Durations that the code    *)
(* expresses in seconds are kept in periods, and the warning threshold     *)
(* (seconds) is scaled by TicksPerSecond, so every comparison of the code  *)
(* is preserved exactly.                                                   *)
(*                                                                         *)
(* Spec is the running component, with failing hardware and every kind of  *)
(* caller; SpecStop adds Close, the select of startPolling and sensor      *)
(* reads that outlast a ticker period; SpecValidate is Config.Validate on  *)
(* arbitrary attributes.                                                   *)
(***************************************************************************)
EXTENDS Integers, Sequences, FiniteSets, TLC

\* Last instant of the modelled clock (in ticker periods).
MaxTime == 7

\* time.NewTicker(250 * time.Millisecond): four ticks per second.
TicksPerSecond == 4

\* Config.Validate: default warning_time when the attribute is absent (0).
DefaultWarningTime == 60

\* Calls of Close that are followed.
MaxCloses == 2

\* warning_time attributes considered by validation: -MaxWarning .. MaxWarning.
MaxWarning == 2

\* Last instant of the clock in the long run of an open door.
MaxLong == 8

VARIABLES
    cfg,            \* s.cfg: the validated Config
    dataClient,     \* s.dataClient # nil
    now,            \* the wall clock, in ticker periods
    mu,             \* s.mu: "free", or the holder "poller" / "reader"
    doorState,      \* s.doorState: "open" or "closed"
    openTime,       \* s.openTime: 0 is the zero time.Time
    lastWarning,    \* s.lastWarning: 0 is the zero time.Time
    lights,         \* level of the green / yellow / red GPIO pins
    pc,             \* position of the polling goroutine
    isHigh,         \* monitorLoop local: raw level of the sensor pin
    isOpen,         \* monitorLoop local
    previousState,  \* monitorLoop local
    duration,       \* monitorLoop local: open duration computed by this call
    want,           \* arguments of the pending setLights call
    outcome,        \* how the most recent monitorLoop call ended
    writeErr,       \* some pin.Set of the most recent setLights call failed
    emitted,        \* events the current monitorLoop call has logged
    synced,         \* dataClient.Sync calls the current monitorLoop call has made
    lastEvent,      \* the latest event ever logged ("none" before the first)
    rd,             \* position of the caller of GetReadings
    src,            \* who is calling GetReadings
    callAt,         \* the instant GetReadings computed the held result
    lastRead,       \* the latest result the caller holds (NoReading when none)
    captured,       \* a capture read has succeeded since the last phase change
    cancelled,      \* s.cancelCtx is done: s.cancelFunc has been called
    tick,           \* ticker.C holds a tick that has not been received
    closes,         \* calls of Close so far
    ticksAfter      \* calls of monitorLoop begun since the cancellation

vars == <<cfg, dataClient, now, mu, doorState, openTime, lastWarning, lights,
          pc, isHigh, isOpen, previousState, duration, want, outcome, writeErr,
          emitted, synced, lastEvent, rd, src, callAt, lastRead, captured,
          cancelled, tick, closes, ticksAfter>>

doorVars == <<doorState, openTime, lastWarning>>
locals   == <<isHigh, isOpen, previousState, duration, want>>
pollVars == <<pc, locals, outcome, writeErr>>
logVars  == <<emitted, synced, lastEvent>>
readVars == <<rd, src, callAt, lastRead, captured>>
stopVars == <<cancelled, tick, closes, ticksAfter>>

-----------------------------------------------------------------------------
(* Configuration *)

\* A machine configuration's attributes, before Validate.
Attributes(sensorType, yellowPin, warningTime) ==
    [BoardName |-> "local", SensorPin |-> "8", SensorType |-> sensorType,
     GreenLightPin |-> "10", YellowLightPin |-> yellowPin,
     RedLightPin |-> "16", WarningTime |-> warningTime]

\* The deployments considered: the attributes, and whether the dependencies
\* hold a data manager service.  The last three are rejected by Validate.
Deployments ==
    { [conf |-> Attributes("", "12", 1),   dataManager |-> TRUE],
      [conf |-> Attributes("NC", "12", 1), dataManager |-> FALSE],
      [conf |-> Attributes("NO", "", 0),   dataManager |-> TRUE],
      [conf |-> [Attributes("NO", "12", 1) EXCEPT !.BoardName = ""],
       dataManager |-> TRUE],
      [conf |-> [Attributes("NO", "12", 1) EXCEPT !.SensorPin = ""],
       dataManager |-> TRUE],
      [conf |-> Attributes("XX", "12", 1), dataManager |-> TRUE] }

\* Config.Validate: the error it returns ("" when it accepts) ...
ValidateErr(c) ==
    IF c.BoardName = "" THEN "board_name is required"
    ELSE IF c.SensorPin = "" THEN "sensor_pin is required"
    ELSE IF c.SensorType # "" /\ c.SensorType # "NO" /\ c.SensorType # "NC"
         THEN "sensor_type must be 'NO' or 'NC'"
    ELSE ""

\* ... and the defaults it writes into the config.
Validate(c) ==
    [c EXCEPT !.WarningTime = IF c.WarningTime = 0 THEN DefaultWarningTime
                              ELSE c.WarningTime,
              !.SensorType  = IF c.SensorType = "" THEN "NO" ELSE c.SensorType]

\* time.Duration(s.cfg.WarningTime) * time.Second, in ticker periods.
warningThreshold == cfg.WarningTime * TicksPerSecond

-----------------------------------------------------------------------------
(* Pure helpers *)

\* A variant of interpret with the two polarities exchanged.
interpretSwapped(high, sensorType) ==
    IF sensorType = "NO" THEN ~high
    ELSE IF sensorType = "NC" THEN high ELSE ~high

\* monitorLoop: "Determine if Door is Open based on config".
interpret(high, sensorType) ==
    IF sensorType = "NO" THEN high
    ELSE IF sensorType = "NC" THEN ~high ELSE high

\* checkWarning(duration)
checkWarning(d) ==
    IF d <= 0 THEN FALSE ELSE d > warningThreshold

\* time.Since(s.openTime)
SinceOpen == now - openTime

\* A variant of Readings that reports the duration monitorLoop last computed
\* instead of computing it at the call.
ReadingsCached(extra) ==
    LET d == IF doorState = "open" THEN duration ELSE 0
    IN  [err |-> "nil", state |-> doorState, open_time |-> d,
         is_warning |-> checkWarning(d)]

\* A variant of Readings that suppresses every read of a closed door,
\* whoever the caller is.
ReadingsSuppressAll(extra) ==
    IF doorState = "closed"
    THEN [err |-> "ErrNoCaptureToStore", state |-> "", open_time |-> 0,
          is_warning |-> FALSE]
    ELSE [err |-> "nil", state |-> doorState, open_time |-> SinceOpen,
          is_warning |-> checkWarning(SinceOpen)]

\* A variant of Readings that hands the caller the error of the last
\* failed sensor read or indicator write.
ReadingsHardwareErr(extra) ==
    IF outcome = "read_failed" \/ writeErr
    THEN [err |-> "hardware", state |-> "", open_time |-> 0,
          is_warning |-> FALSE]
    ELSE [err |-> "nil", state |-> doorState,
          open_time |-> IF doorState = "open" THEN SinceOpen ELSE 0,
          is_warning |-> checkWarning(IF doorState = "open" THEN SinceOpen ELSE 0)]

\* The map GetReadings returns for a call carrying `extra`, with its error.
Readings(extra) ==
    LET d == IF doorState = "open" THEN SinceOpen ELSE 0
    IN  [err |-> "nil", state |-> doorState, open_time |-> d,
         is_warning |-> checkWarning(d)]

\* What a caller holds while it has no result.
NoReading == [err |-> "none", state |-> "", open_time |-> 0, is_warning |-> FALSE]

\* The patterns setLights is called with.
Green  == [green |-> TRUE,  yellow |-> FALSE, red |-> FALSE]
Yellow == [green |-> FALSE, yellow |-> TRUE,  red |-> FALSE]
Red    == [green |-> FALSE, yellow |-> FALSE, red |-> TRUE]
Dark   == [green |-> FALSE, yellow |-> FALSE, red |-> FALSE]

\* The event "Door Opened" has nothing before it.
NoEvent == [status |-> "none", duration |-> 0]

-----------------------------------------------------------------------------
(* Construction: NewDoorMonitor *)

Init ==
    /\ \E d \in Deployments :
          /\ ValidateErr(d.conf) = ""
          /\ cfg = Validate(d.conf)
          /\ dataClient = d.dataManager
    /\ now = 1
    /\ mu = "free"
    /\ doorState = "closed"
    /\ openTime = 0
    /\ lastWarning = 0
    /\ lights = Dark
    /\ pc = "wait"
    /\ isHigh = FALSE
    /\ isOpen = FALSE
    /\ previousState = "closed"
    /\ duration = 0
    /\ want = Dark
    /\ outcome = "none"
    /\ writeErr = FALSE
    /\ emitted = <<>>
    /\ synced = 0
    /\ lastEvent = NoEvent
    /\ rd = "idle"
    /\ src = "none"
    /\ callAt = 0
    /\ lastRead = NoReading
    /\ captured = FALSE
    /\ cancelled = FALSE
    /\ tick = FALSE
    /\ closes = 0
    /\ ticksAfter = 0

-----------------------------------------------------------------------------
(* The clock *)

\* Time passes between two calls of monitorLoop (a delayed or dropped tick);
\* a call of monitorLoop itself is short against the ticker period.
TimePasses ==
    /\ pc = "wait"
    /\ now < MaxTime
    /\ now' = now + 1
    /\ UNCHANGED <<cfg, dataClient, stopVars, mu, doorVars, lights, pollVars, logVars,
                   readVars>>

-----------------------------------------------------------------------------
(* The polling goroutine: startPolling / monitorLoop / setLights / postData *)

\* monitorLoop returns: its locals go out of scope; o records how it ended.
Return(o) ==
    /\ pc' = "wait"
    /\ outcome' = o
    /\ isHigh' = FALSE
    /\ isOpen' = FALSE
    /\ previousState' = "closed"
    /\ duration' = 0
    /\ want' = Dark

\* A variant of Log that emits the event twice.
LogTwice(e) ==
    /\ emitted' = Append(Append(emitted, e), e)
    /\ lastEvent' = e

\* logger.Info("Door Opened") / logger.Info("Door Closed", "duration", d)
Log(e) ==
    /\ emitted' = Append(emitted, e)
    /\ lastEvent' = e

\* case <-ticker.C: the select blocks (the context is not done, no tick is
\* pending) until a ticker period has elapsed; monitorLoop is called.
Ticker(horizon) ==
    /\ pc = "wait"
    /\ ~cancelled
    /\ ~tick
    /\ now < horizon
    /\ now' = now + 1
    /\ pc' = "get"
    /\ emitted' = <<>>
    /\ synced' = 0
    /\ UNCHANGED <<cfg, dataClient, stopVars, mu, doorVars, lights, locals, outcome,
                   writeErr, lastEvent, readVars>>

TickerFire == Ticker(MaxTime)

\* A variant of SensorGetFail that falls back to a closed door when the
\* sensor cannot be read.
SensorGetFailClosed ==
    /\ pc = "get"
    /\ Return("read_failed")
    /\ doorState' = "closed"
    /\ UNCHANGED <<cfg, dataClient, stopVars, now, mu, openTime, lastWarning,
                   lights, writeErr, logVars, readVars>>

\* s.sensorPin.Get fails: the error is logged and monitorLoop returns.
SensorGetFail ==
    /\ pc = "get"
    /\ Return("read_failed")
    /\ UNCHANGED <<cfg, dataClient, stopVars, now, mu, doorVars, lights, writeErr,
                   logVars, readVars>>

\* s.sensorPin.Get returns a level; isOpen is derived from it.
SensorGet ==
    /\ pc = "get"
    /\ \E high \in BOOLEAN :
          /\ isHigh' = high
          /\ isOpen' = interpret(high, cfg.SensorType)
    /\ pc' = "lock_prev"
    /\ UNCHANGED <<cfg, dataClient, stopVars, now, mu, doorVars, lights, previousState,
                   duration, want, outcome, writeErr, logVars, readVars>>

\* The critical section each s.mu.Lock() of monitorLoop leads into.
Section(p) ==
    CASE p = "lock_prev"  -> "read_prev"
      [] p = "lock_open"  -> "do_open"
      [] p = "lock_still" -> "do_still"
      [] p = "lock_close" -> "do_close"

\* s.mu.Lock() in monitorLoop: blocks while the mutex is held.
MonitorLock ==
    /\ pc \in {"lock_prev", "lock_open", "lock_still", "lock_close"}
    /\ mu = "free"
    /\ mu' = "poller"
    /\ pc' = Section(pc)
    /\ UNCHANGED <<cfg, dataClient, stopVars, now, doorVars, lights, locals, outcome,
                   writeErr, logVars, readVars>>

\* A variant of Branch that writes the indicators on transitions only: a
\* door that is still closed ends the call.
BranchOnChange(open, prev) ==
    IF open
    THEN IF prev = "closed" THEN "lock_open" ELSE "lock_still"
    ELSE IF prev = "open" THEN "lock_close" ELSE "wait"

\* The branch monitorLoop takes on (isOpen, previousState).
Branch(open, prev) ==
    IF open
    THEN IF prev = "closed" THEN "lock_open" ELSE "lock_still"
    ELSE IF prev = "open" THEN "lock_close" ELSE "set_green"

\* previousState := s.doorState; s.mu.Unlock(); then the branch is chosen.
\* The "still closed" branch calls setLights(true, false, false) at once.
ReadPrevious ==
    /\ pc = "read_prev"
    /\ previousState' = doorState
    /\ mu' = "free"
    /\ pc' = Branch(isOpen, doorState)
    /\ want' = IF pc' = "set_green" THEN Green ELSE want
    /\ writeErr' = IF pc' = "set_green" THEN FALSE ELSE writeErr
    /\ UNCHANGED <<cfg, dataClient, stopVars, now, doorVars, lights, isHigh, isOpen,
                   duration, outcome, logVars, readVars>>

\* A variant of OpenTransition that sets the state and leaves openTime for
\* a later step.
OpenTransitionUnstamped ==
    /\ pc = "do_open"
    /\ doorState' = "open"
    /\ lastWarning' = 0
    /\ mu' = "free"
    /\ Log([status |-> "opened", duration |-> 0])
    /\ captured' = FALSE
    /\ pc' = "post"
    /\ UNCHANGED <<cfg, dataClient, stopVars, now, openTime, lights, locals,
                   outcome, writeErr, synced, rd, src, callAt, lastRead>>

\* Transition Closed -> Open, and logger.Info("Door Opened").
OpenTransition ==
    /\ pc = "do_open"
    /\ doorState' = "open"
    /\ openTime' = now
    /\ lastWarning' = 0
    /\ mu' = "free"
    /\ Log([status |-> "opened", duration |-> 0])
    /\ captured' = FALSE
    /\ pc' = "post"
    /\ UNCHANGED <<cfg, dataClient, stopVars, now, lights, locals, outcome, writeErr,
                   synced, rd, src, callAt, lastRead>>

\* A variant of StillOpen that warns from the threshold on (>= for >).
StillOpenEarly ==
    /\ pc = "do_still"
    /\ duration' = SinceOpen
    /\ mu' = "free"
    /\ want' = IF duration' >= warningThreshold THEN Red ELSE Yellow
    /\ writeErr' = FALSE
    /\ pc' = "set_green"
    /\ UNCHANGED <<cfg, dataClient, stopVars, now, doorVars, lights, isHigh, isOpen,
                   previousState, outcome, logVars, readVars>>

\* A variant of StillOpen that stamps openTime again on every call.
StillOpenRestamp ==
    /\ pc = "do_still"
    /\ duration' = SinceOpen
    /\ openTime' = now
    /\ mu' = "free"
    /\ want' = IF duration' > warningThreshold THEN Red ELSE Yellow
    /\ writeErr' = FALSE
    /\ pc' = "set_green"
    /\ UNCHANGED <<cfg, dataClient, stopVars, now, doorState, lastWarning, lights, isHigh,
                   isOpen, previousState, outcome, logVars, readVars>>

\* A variant of StillOpen that warns once per open interval, remembering
\* the warning in lastWarning, and goes back to the open pattern after it.
StillOpenWarnOnce ==
    /\ pc = "do_still"
    /\ duration' = SinceOpen
    /\ mu' = "free"
    /\ want' = IF duration' > warningThreshold /\ lastWarning = 0
               THEN Red ELSE Yellow
    /\ lastWarning' = IF want' = Red THEN now ELSE lastWarning
    /\ writeErr' = FALSE
    /\ pc' = "set_green"
    /\ UNCHANGED <<cfg, dataClient, stopVars, now, doorState, openTime,
                   lights, isHigh, isOpen, previousState, outcome, logVars,
                   readVars>>

\* Still open: the duration is computed and the light pattern chosen.
StillOpen ==
    /\ pc = "do_still"
    /\ duration' = SinceOpen
    /\ mu' = "free"
    /\ want' = IF duration' > warningThreshold THEN Red ELSE Yellow
    /\ writeErr' = FALSE
    /\ pc' = "set_green"
    /\ UNCHANGED <<cfg, dataClient, stopVars, now, doorVars, lights, isHigh, isOpen,
                   previousState, outcome, logVars, readVars>>

\* A variant of CloseTransition that keeps the mutex while setLights and
\* postData run.
CloseTransitionLocked ==
    /\ pc = "do_close"
    /\ duration' = SinceOpen
    /\ doorState' = "closed"
    /\ Log([status |-> "closed", duration |-> duration'])
    /\ captured' = FALSE
    /\ want' = Green
    /\ writeErr' = FALSE
    /\ pc' = "set_green"
    /\ UNCHANGED <<cfg, dataClient, stopVars, now, mu, openTime, lastWarning,
                   lights, isHigh, isOpen, previousState, outcome, synced,
                   rd, src, callAt, lastRead>>

\* Transition Open -> Closed, logger.Info("Door Closed", "duration", duration),
\* then setLights(true, false, false) is called.
CloseTransition ==
    /\ pc = "do_close"
    /\ duration' = SinceOpen
    /\ doorState' = "closed"
    /\ mu' = "free"
    /\ Log([status |-> "closed", duration |-> duration'])
    /\ captured' = FALSE
    /\ want' = Green
    /\ writeErr' = FALSE
    /\ pc' = "set_green"
    /\ UNCHANGED <<cfg, dataClient, stopVars, now, openTime, lastWarning, lights, isHigh,
                   isOpen, previousState, outcome, synced,
                   rd, src, callAt, lastRead>>

\* The pin each step of setLights writes, and its configured name.
PinOf(p) ==
    CASE p = "set_green"  -> "green"
      [] p = "set_yellow" -> "yellow"
      [] p = "set_red"    -> "red"

PinName(p) ==
    CASE p = "set_green"  -> cfg.GreenLightPin
      [] p = "set_yellow" -> cfg.YellowLightPin
      [] p = "set_red"    -> cfg.RedLightPin

\* After setLights: the close transition goes on to postData, every other
\* branch ends monitorLoop.
AfterLights(p) ==
    CASE p = "set_green"  -> "set_yellow"
      [] p = "set_yellow" -> "set_red"
      [] p = "set_red"    -> IF previousState = "open" /\ ~isOpen
                             THEN "post" ELSE "wait"

\* How a call of monitorLoop that got past the sensor read ends.
Ending ==
    IF isOpen
    THEN IF previousState = "closed" THEN "opened"
         ELSE IF want = Red THEN "warning" ELSE "open"
    ELSE IF previousState = "open" THEN "closed" ELSE "still_closed"

\* Control moves on to p, which is the end of monitorLoop when p = "wait".
Proceed(p) ==
    IF p = "wait"
    THEN Return(Ending)
    ELSE pc' = p /\ UNCHANGED <<locals, outcome>>

\* setLights: the pin is not configured (nil), nothing is written.
SetLightSkip ==
    /\ pc \in {"set_green", "set_yellow", "set_red"}
    /\ PinName(pc) = ""
    /\ Proceed(AfterLights(pc))
    /\ UNCHANGED <<cfg, dataClient, stopVars, now, mu, doorVars, lights, writeErr,
                   logVars, readVars>>

\* setLights: pin.Set succeeds.
SetLight ==
    /\ pc \in {"set_green", "set_yellow", "set_red"}
    /\ PinName(pc) # ""
    /\ lights' = [lights EXCEPT ![PinOf(pc)] = want[PinOf(pc)]]
    /\ Proceed(AfterLights(pc))
    /\ UNCHANGED <<cfg, dataClient, stopVars, now, mu, doorVars, writeErr, logVars,
                   readVars>>

\* A variant of SetLightFail in which the failed pin.Set ends setLights and
\* the call of monitorLoop.
SetLightFailAbort ==
    /\ pc \in {"set_green", "set_yellow", "set_red"}
    /\ PinName(pc) # ""
    /\ writeErr' = TRUE
    /\ Return(Ending)
    /\ UNCHANGED <<cfg, dataClient, stopVars, now, mu, doorVars, lights, logVars,
                   readVars>>

\* setLights: pin.Set fails; the error is logged and the next pin is written.
SetLightFail ==
    /\ pc \in {"set_green", "set_yellow", "set_red"}
    /\ PinName(pc) # ""
    /\ writeErr' = TRUE
    /\ Proceed(AfterLights(pc))
    /\ UNCHANGED <<cfg, dataClient, stopVars, now, mu, doorVars, lights, logVars,
                   readVars>>

\* postData: one dataClient.Sync when a data manager was found, else nothing.
PostData ==
    /\ pc = "post"
    /\ synced' = IF dataClient THEN synced + 1 ELSE synced
    /\ Return(Ending)
    /\ UNCHANGED <<cfg, dataClient, stopVars, now, mu, doorVars, lights, writeErr,
                   emitted, lastEvent, readVars>>

-----------------------------------------------------------------------------
(* Callers: GetReadings and DoCommand *)

\* The extra map of a call: nil, or carrying fromDataManagement = true.
ExtraOf(who) == IF who = "capture" THEN "fromDataManagement" ELSE "nil"

\* A caller enters GetReadings and takes the mutex (s.mu.Lock()); it may
\* still hold the result of its previous call.
Call(who) ==
    /\ rd \in {"idle", "returned"}
    /\ mu = "free"
    /\ mu' = "reader"
    /\ rd' = "locked"
    /\ src' = who
    /\ UNCHANGED <<cfg, dataClient, stopVars, now, doorVars, lights, pollVars, logVars,
                   callAt, lastRead, captured>>

\* The data manager's periodic capture: GetReadings(ctx, {fromDataManagement}).
CaptureRead == Call("capture")

\* A status query through the Readings API: GetReadings(ctx, nil).
OnDemandRead == Call("ondemand")

\* DoCommand: every command returns GetReadings(ctx, nil).
DoCommand == Call("command")

\* A variant of GetReadings in which a capture read of an open door also
\* marks it closed: a second writer of the door state.
GetReadingsWrites ==
    /\ rd = "locked"
    /\ lastRead' = Readings(ExtraOf(src))
    /\ callAt' = now
    /\ captured' = (captured \/ (src = "capture" /\ lastRead'.err = "nil"))
    /\ doorState' = IF src = "capture" THEN "closed" ELSE doorState
    /\ mu' = "free"
    /\ rd' = "returned"
    /\ UNCHANGED <<cfg, dataClient, stopVars, now, openTime, lastWarning,
                   lights, pollVars, logVars, src>>

\* The body of GetReadings, and the deferred s.mu.Unlock().
GetReadings ==
    /\ rd = "locked"
    /\ lastRead' = Readings(ExtraOf(src))
    /\ callAt' = now
    /\ captured' = (captured \/ (src = "capture" /\ lastRead'.err = "nil"))
    /\ mu' = "free"
    /\ rd' = "returned"
    /\ UNCHANGED <<cfg, dataClient, stopVars, now, doorVars, lights, pollVars, logVars,
                   src>>

\* The caller drops the result it holds.
Returned ==
    /\ rd = "returned"
    /\ rd' = "idle"
    /\ src' = "none"
    /\ callAt' = 0
    /\ lastRead' = NoReading
    /\ UNCHANGED <<cfg, dataClient, stopVars, now, mu, doorVars, lights, pollVars,
                   logVars, captured>>

-----------------------------------------------------------------------------

Next ==
    \/ TimePasses
    \/ TickerFire
    \/ SensorGetFail
    \/ SensorGet
    \/ MonitorLock
    \/ ReadPrevious
    \/ OpenTransition
    \/ StillOpen
    \/ CloseTransition
    \/ SetLightSkip
    \/ SetLight
    \/ SetLightFail
    \/ PostData
    \/ CaptureRead
    \/ OnDemandRead
    \/ DoCommand
    \/ GetReadings
    \/ Returned

\* The component between construction and shutdown.
Spec == Init /\ [][Next]_vars

-----------------------------------------------------------------------------
(* Shutdown: Close, and the select of startPolling *)

\* A variant of Close that also puts the door state back to its initial value.
CloseResets ==
    /\ closes < MaxCloses
    /\ closes' = closes + 1
    /\ cancelled' = TRUE
    /\ doorState' = "closed"
    /\ openTime' = 0
    /\ UNCHANGED <<cfg, dataClient, now, mu, lastWarning, lights, pollVars,
                   logVars, readVars, tick, ticksAfter>>

\* Close: s.cancelFunc() cancels the polling context (a second call of a
\* CancelFunc does nothing) and nil is returned; it does not wait for the
\* goroutine.
Close ==
    /\ closes < MaxCloses
    /\ closes' = closes + 1
    /\ cancelled' = TRUE
    /\ UNCHANGED <<cfg, dataClient, now, mu, doorVars, lights, pollVars,
                   logVars, readVars, tick, ticksAfter>>

\* s.sensorPin.Get(context.Background()) has no deadline: while it is in
\* progress a ticker period elapses and the ticker puts a tick in ticker.C
\* (capacity one; a tick that finds the channel full is dropped).
SlowGet ==
    /\ pc = "get"
    /\ now < MaxTime
    /\ now' = now + 1
    /\ tick' = TRUE
    /\ UNCHANGED <<cfg, dataClient, mu, doorVars, lights, pollVars, logVars,
                   readVars, cancelled, closes, ticksAfter>>

\* case <-ticker.C with a tick pending: monitorLoop is called at once.  When
\* the context is done as well, select picks either ready case.
TickPending ==
    /\ pc = "wait"
    /\ tick
    /\ tick' = FALSE
    /\ pc' = "get"
    /\ emitted' = <<>>
    /\ synced' = 0
    /\ ticksAfter' = IF cancelled THEN ticksAfter + 1 ELSE ticksAfter
    /\ UNCHANGED <<cfg, dataClient, now, mu, doorVars, lights, locals, outcome,
                   writeErr, lastEvent, readVars, cancelled, closes>>

\* case <-s.cancelCtx.Done(): the goroutine returns (and stops the ticker).
CtxDone ==
    /\ pc = "wait"
    /\ cancelled
    /\ pc' = "exited"
    /\ UNCHANGED <<cfg, dataClient, now, mu, doorVars, lights, locals, outcome,
                   writeErr, logVars, readVars, stopVars>>

\* Shutdown against a component whose hardware answers and whose readings
\* are queried on demand.
NextStop ==
    \/ TickerFire
    \/ SensorGet
    \/ MonitorLock
    \/ ReadPrevious
    \/ OpenTransition
    \/ StillOpen
    \/ CloseTransition
    \/ SetLightSkip
    \/ SetLight
    \/ PostData
    \/ OnDemandRead
    \/ GetReadings
    \/ Returned
    \/ Close
    \/ SlowGet
    \/ TickPending
    \/ CtxDone

\* The component from construction through shutdown.
SpecStop == Init /\ [][NextStop]_vars

-----------------------------------------------------------------------------
(* Validation: Config.Validate on arbitrary attributes *)

\* The attributes a machine configuration may carry: any of the strings
\* that matter for the required fields and the sensor type, and a
\* warning_time of either sign (the field is an int).
RawConfigs ==
    { [BoardName |-> b, SensorPin |-> sp, SensorType |-> st,
       GreenLightPin |-> "10", YellowLightPin |-> "12", RedLightPin |-> "16",
       WarningTime |-> w] :
        b \in {"", "local"}, sp \in {"", "8"}, st \in {"", "NO", "NC", "XX"},
        w \in -MaxWarning .. MaxWarning }

\* A configuration has been decoded and Validate is about to be called.
InitValidate ==
    /\ cfg \in RawConfigs
    /\ pc = "validate"
    /\ dataClient = FALSE
    /\ now = 1
    /\ mu = "free"
    /\ doorState = "closed"
    /\ openTime = 0
    /\ lastWarning = 0
    /\ lights = Dark
    /\ isHigh = FALSE
    /\ isOpen = FALSE
    /\ previousState = "closed"
    /\ duration = 0
    /\ want = Dark
    /\ outcome = "none"
    /\ writeErr = FALSE
    /\ emitted = <<>>
    /\ synced = 0
    /\ lastEvent = NoEvent
    /\ rd = "idle"
    /\ src = "none"
    /\ callAt = 0
    /\ lastRead = NoReading
    /\ captured = FALSE
    /\ cancelled = FALSE
    /\ tick = FALSE
    /\ closes = 0
    /\ ticksAfter = 0

\* Validate returns the dependencies and a nil error; the defaults have been
\* written into the config, which NewDoorMonitor will run with.
ValidateAccepts ==
    /\ pc = "validate"
    /\ ValidateErr(cfg) = ""
    /\ cfg' = Validate(cfg)
    /\ pc' = "validated"
    /\ UNCHANGED <<dataClient, now, mu, doorVars, lights, locals, outcome,
                   writeErr, logVars, readVars, stopVars>>

\* Validate returns an error.  The sensor_type error comes after the
\* warning_time default has been written.
ValidateRejects ==
    /\ pc = "validate"
    /\ ValidateErr(cfg) # ""
    /\ cfg' = IF cfg.BoardName # "" /\ cfg.SensorPin # ""
              THEN [cfg EXCEPT !.WarningTime = Validate(cfg).WarningTime]
              ELSE cfg
    /\ pc' = "rejected"
    /\ UNCHANGED <<dataClient, now, mu, doorVars, lights, locals, outcome,
                   writeErr, logVars, readVars, stopVars>>

NextValidate ==
    \/ ValidateAccepts
    \/ ValidateRejects

SpecValidate == InitValidate /\ [][NextValidate]_vars

-----------------------------------------------------------------------------
(* A long open interval *)

\* case <-ticker.C, on a clock that runs long enough for an open interval to
\* pass the warning threshold and go on.
TickerFireLong == Ticker(MaxLong)

\* The component with hardware that answers, queried on demand.
NextLong ==
    \/ TimePasses
    \/ TickerFireLong
    \/ SensorGet
    \/ MonitorLock
    \/ ReadPrevious
    \/ OpenTransition
    \/ StillOpen
    \/ CloseTransition
    \/ SetLightSkip
    \/ SetLight
    \/ PostData
    \/ OnDemandRead
    \/ GetReadings
    \/ Returned

SpecLong == Init /\ [][NextLong]_vars

-----------------------------------------------------------------------------
(* Properties *)

\* The step in which the body of GetReadings runs and the call returns.
ReadStep == rd = "locked" /\ rd' = "returned"

\* The step in which a call of monitorLoop returns.
TickEnds == pc # "wait" /\ pc' = "wait"

\* The duration of the most recently completed open interval (0 if none):
\* the one the latest "Door Closed" event carried.
CompletedDuration == IF lastEvent.status = "closed" THEN lastEvent.duration ELSE 0

\* The indicator pins that are asserted.
Asserted == {p \in {"green", "yellow", "red"} : lights[p]}

\* The indicator that agrees with a phase and an elapsed open time.
Indicator(phase, elapsed) ==
    IF phase = "closed" THEN "green"
    ELSE IF elapsed > warningThreshold THEN "red" ELSE "yellow"

AllPins ==
    cfg.GreenLightPin # "" /\ cfg.YellowLightPin # "" /\ cfg.RedLightPin # ""

\* C1 (as claimed): once a capture-pipeline read has succeeded while the door
\* is closed, every later capture-pipeline read in the same closed interval
\* fails with the "no new data to capture" signal.
C1_Suppression ==
    [][(ReadStep /\ src = "capture" /\ doorState = "closed" /\ captured)
          => lastRead'.err = "ErrNoCaptureToStore"]_vars

\* C2 (as claimed): in a closed interval that follows an Open->Closed
\* transition, a capture-pipeline read succeeds with state = closed exactly
\* when it is the first capture-pipeline read of that interval.
C2_OneShot ==
    [][(ReadStep /\ src = "capture" /\ doorState = "closed"
            /\ lastEvent.status = "closed")
          => ((lastRead'.err = "nil" /\ lastRead'.state = "closed") <=> ~captured)]_vars

\* C3 (as claimed): a read that returns a value while the door is closed
\* reports as open_time the duration of the most recently completed open
\* interval, and 0 if the door never opened.
C3_ClosedOpenTime ==
    [][(ReadStep /\ doorState = "closed" /\ lastRead'.err = "nil")
          => lastRead'.open_time = CompletedDuration]_vars

\* C4: a read made while the door is open, by any caller, is never suppressed
\* and returns state = open with open_time = now - openTime; a later read of
\* the same open interval never returns a smaller open_time than an earlier one.
C4_OpenReads ==
    [][ReadStep /\ doorState = "open"
          => /\ lastRead'.err = "nil"
             /\ lastRead'.state = "open"
             /\ lastRead'.open_time = now - openTime
             /\ (lastRead.err = "nil" /\ lastRead.state = "open"
                    /\ callAt >= openTime
                  => lastRead'.open_time >= lastRead.open_time)]_vars

\* C4 happens: the capture pipeline, holding a reading it took while the door
\* was open, is reading again later in the same open interval.
C4_Witness ==
    /\ rd = "locked"
    /\ src = "capture"
    /\ doorState = "open"
    /\ lastRead.err = "nil"
    /\ lastRead.state = "open"
    /\ lastRead.open_time >= 1
    /\ callAt >= openTime
    /\ now > callAt

\* C5 (as claimed): is_warning tells whether the duration exceeds the warning
\* threshold, for the running open interval when read while open and for the
\* completed open interval when read while closed.
C5_Warning ==
    [][(ReadStep /\ lastRead'.err = "nil")
          => (lastRead'.is_warning <=>
                (IF doorState = "open" THEN now - openTime
                 ELSE CompletedDuration) > warningThreshold)]_vars

\* C6: a read that does not come from the capture pipeline (the Readings API
\* without the capture flag, or DoCommand) always succeeds, also after a
\* capture-pipeline read of the same closed interval, and changes neither the
\* door state, nor the indicators, nor the events, nor what the capture
\* pipeline has been given.
C6_OnDemand ==
    [][(ReadStep /\ src # "capture")
          => /\ lastRead'.err = "nil"
             /\ lastRead'.state = doorState
             /\ UNCHANGED <<doorVars, lights, pollVars, logVars, captured, now>>]_vars

\* C6 happens: a DoCommand status query has returned while the door is closed,
\* after a capture-pipeline read of the same closed interval.
C6_Witness ==
    /\ rd = "returned"
    /\ src = "command"
    /\ lastRead.state = "closed"
    /\ doorState = "closed"
    /\ lastEvent.status = "closed"
    /\ captured

\* C7 (as claimed), taken where it is most likely to hold: between two calls
\* of monitorLoop, after a call that read the sensor, with all three pins
\* configured and no write failed.  Exactly one indicator is asserted, the
\* one that agrees with the phase and the elapsed open time.
C7_ExactlyOne ==
    (pc = "wait" /\ outcome \notin {"none", "read_failed"} /\ ~writeErr /\ AllPins)
       => Asserted = {Indicator(doorState, SinceOpen)}

\* C7 (amended): when a call of monitorLoop returns after a successful sensor
\* read, in a branch that writes the indicators (every branch but the
\* Closed->Open transition), with all three pins configured and every write
\* successful, exactly one indicator is asserted, the one that agrees with
\* the phase and the open duration that call computed.
C7_Indicators ==
    [][(TickEnds /\ outcome' \in {"still_closed", "closed", "open", "warning"}
            /\ ~writeErr' /\ AllPins)
          => Asserted' = {Indicator(doorState', duration)}]_vars

\* C7 happens: a call has ended with the warning indicator alone asserted.
C7_Witness ==
    /\ pc = "wait"
    /\ outcome = "warning"
    /\ ~writeErr
    /\ AllPins
    /\ Asserted = {"red"}
    /\ SinceOpen > warningThreshold

\* C8: the phase goes from closed to open only in a call that read the door
\* as open, and that step records openTime = now; no other step changes
\* openTime, so the following calls that read the door as open leave the phase
\* and openTime as they are; the phase goes back to closed only in a call that
\* read the door as not open.
C8_OpenOnce ==
    [][/\ (doorState = "closed" /\ doorState' = "open")
             => (isOpen /\ openTime' = now)
       /\ (doorState' = doorState \/ doorState' = "closed")
             => openTime' = openTime
       /\ (doorState = "open" /\ doorState' = "closed") => ~isOpen
       /\ (pc \in {"lock_still", "do_still"}) => doorState' = "open"]_vars

\* C8 happens: calls that read the door as open have followed the opening one.
C8_Witness ==
    /\ pc = "wait"
    /\ doorState = "open"
    /\ outcome = "open"
    /\ openTime > 0
    /\ now >= openTime + 2

\* C9: a step that changes the phase logs exactly one event, "opened" with
\* duration 0 or "closed" with the open duration now - openTime; no other
\* step logs; events alternate, starting with "opened"; and a call of
\* monitorLoop ends having logged one event iff it changed the phase, with
\* one data-manager sync per event when a data manager is present.
C9_Events ==
    /\ [][/\ doorState' # doorState
                => emitted' = Append(emitted,
                       [status   |-> IF doorState' = "open" THEN "opened"
                                     ELSE "closed",
                        duration |-> IF doorState' = "open" THEN 0
                                     ELSE now - openTime])
          /\ doorState' = doorState => Len(emitted') <= Len(emitted)
          /\ Len(emitted') > Len(emitted)
                => /\ lastEvent' = emitted'[Len(emitted')]
                   /\ lastEvent'.status =
                         (IF lastEvent.status = "opened" THEN "closed"
                          ELSE "opened")]_vars
    /\ [](pc = "wait" =>
            /\ Len(emitted) = (IF outcome \in {"opened", "closed"} THEN 1 ELSE 0)
            /\ synced = (IF dataClient THEN Len(emitted) ELSE 0))

\* C9 happens: a call has closed the door, logged one "closed" event with a
\* positive duration and made one sync.
C9_Witness ==
    /\ pc = "wait"
    /\ outcome = "closed"
    /\ Len(emitted) = 1
    /\ emitted[1].status = "closed"
    /\ emitted[1].duration >= 2
    /\ synced = 1

\* C10: while monitorLoop runs past the sensor read, isOpen is the raw level
\* for a NO switch and its negation for a NC switch, and the branch taken is
\* the one of that value: the open branches when isOpen, the closed ones
\* when not.
C10_Interpret ==
    (pc \notin {"wait", "get"}) =>
       /\ cfg.SensorType \in {"NO", "NC"}
       /\ (cfg.SensorType = "NO" /\ isHigh) => isOpen
       /\ (cfg.SensorType = "NO" /\ ~isHigh) => ~isOpen
       /\ (cfg.SensorType = "NC" /\ isHigh) => ~isOpen
       /\ (cfg.SensorType = "NC" /\ ~isHigh) => isOpen
       /\ (pc \in {"lock_open", "do_open", "lock_still", "do_still"}) => isOpen
       /\ (pc \in {"lock_close", "do_close"}) => ~isOpen
       /\ (pc = "post") => (isOpen <=> doorState = "open")
       /\ (pc \in {"set_green", "set_yellow", "set_red"})
             => (isOpen <=> want # Green)

\* C10 happens: a NC switch read low, and the call is opening the door.
C10_Witness ==
    /\ cfg.SensorType = "NC"
    /\ pc = "do_open"
    /\ ~isHigh
    /\ isOpen

\* C11: once the polling context is cancelled the goroutine begins at most
\* one further call of monitorLoop before it exits.  (Fails: when the sensor
\* read outlasts a ticker period a tick is pending each time the goroutine
\* is back at its select, and select may pick it over the done context any
\* number of times.)
C11_PromptExit == ticksAfter <= 1

\* C12: a failed sensor read or indicator write never reaches a caller of
\* GetReadings / DoCommand: every result a caller holds is a reading (nil
\* error) or the suppression error, never any other error.
C12_NoHardwareError ==
    lastRead # NoReading => lastRead.err \in {"nil", "ErrNoCaptureToStore"}

\* A read answered with a reading right after a failed sensor read, with the
\* latest indicator write failed as well.
C12_Witness ==
    /\ rd = "returned"
    /\ callAt = now
    /\ outcome = "read_failed"
    /\ writeErr
    /\ lastRead.err = "nil"
    /\ lastRead.state = doorState

\* C13: a call of monitorLoop whose sensor read fails changes nothing but
\* its own position: from the tick to its return the door state, openTime,
\* lastWarning, the indicators and the latest event stay as they were, it
\* logs no event and triggers no sync, and it returns to the select without
\* the mutex, so the next tick runs as usual.
C13_FailedRead ==
    [][/\ (pc = "wait" /\ pc' = "get") =>
            UNCHANGED <<doorVars, lights, lastEvent, captured, mu>>
       /\ (pc = "get" /\ pc' = "wait") =>
            /\ outcome' = "read_failed"
            /\ UNCHANGED <<doorVars, lights, lastEvent, captured, mu>>
            /\ emitted' = <<>>
            /\ synced' = 0
            /\ mu # "poller"]_vars

\* The call after a failed sensor read has gone on to make the Closed ->
\* Open transition.
C13_Witness ==
    /\ outcome = "read_failed"
    /\ pc = "post"
    /\ previousState = "closed"
    /\ doorState = "open"
    /\ openTime = now

\* The pins setLights writes, in its order.
LightSteps == {"set_green", "set_yellow", "set_red"}

\* C14 as stated: every call of monitorLoop that read the sensor and had no
\* failing indicator write (the Closed -> Open call attempts none) leaves,
\* with all three pins configured, the one indicator of the state lit; so
\* the tick after a failed write would always heal it.  (Fails on the
\* Closed -> Open call, which writes no indicator.)
C14_NextTickHeals ==
    [][TickEnds /\ outcome' # "read_failed" /\ AllPins
         /\ (outcome' = "opened" \/ ~writeErr')
       => lights' = IF doorState' = "closed" THEN Green
                    ELSE IF now' - openTime' > warningThreshold THEN Red
                    ELSE Yellow]_vars

\* C14 (amended): a failing pin.Set neither ends setLights nor undoes the
\* call: control goes on to the next pin and the door state stays; the
\* Open -> Closed call still ends with the door closed, the event logged
\* and the sync made; and every call that runs setLights without a failing
\* write leaves each configured pin at the level of its pattern, whatever
\* the pins showed before.
C14_SelfHeal ==
    [][/\ (pc \in LightSteps /\ pc' # pc) =>
            /\ pc' = AfterLights(pc)
            /\ UNCHANGED doorVars
       /\ (TickEnds /\ previousState = "open" /\ ~isOpen) =>
            /\ doorState' = "closed"
            /\ lastEvent' = [status |-> "closed", duration |-> duration]
            /\ synced' = IF dataClient THEN 1 ELSE 0
       /\ (TickEnds /\ want # Dark /\ ~writeErr') =>
            /\ want \in {Green, Yellow, Red}
            /\ \A p \in LightSteps :
                  PinName(p) # "" => lights'[PinOf(p)] = want[PinOf(p)]]_vars

\* The Open -> Closed call is at postData: the write of the green pin
\* failed, the yellow and red pins were written after it, the door is closed.
C14_Witness ==
    /\ pc = "post"
    /\ writeErr
    /\ previousState = "open"
    /\ doorState = "closed"
    /\ lastEvent.status = "closed"
    /\ AllPins
    /\ lights = Dark
    /\ duration > warningThreshold

\* The positions at which monitorLoop is in an I/O call: sensorPin.Get, a
\* pin.Set of setLights, dataClient.Sync.
IOSteps == {"get", "set_green", "set_yellow", "set_red", "post"}

\* C15 as stated: whenever monitorLoop is in an I/O call the mutex is free.
\* (Fails: a caller may be inside GetReadings, holding it, at that moment.)
C15_LockFree == pc \in IOSteps => mu = "free"

\* C15 (amended): the mutex is never held across I/O.
\* The goroutine holds it only in
\* its four critical sections, a caller only in the body of GetReadings
\* (which does no I/O); so while the goroutine is in an I/O call the mutex
\* is free unless a caller is in that body, and a read can take it.
C15_NoLockAcrossIO ==
    /\ pc \in IOSteps => mu # "poller"
    /\ mu = "poller" <=> pc \in {"read_prev", "do_open", "do_still", "do_close"}
    /\ mu = "reader" <=> rd = "locked"
    /\ (pc \in IOSteps /\ rd # "locked") => mu = "free" /\ ENABLED OnDemandRead

\* An on-demand read holds the mutex while setLights is between two pins.
C15_Witness ==
    /\ pc = "set_yellow"
    /\ rd = "locked"
    /\ src = "ondemand"
    /\ mu = "reader"

\* C16: every call of monitorLoop that read the sensor calls setLights with
\* the closed pattern when isOpen is false (transition or not), and, when
\* isOpen is true and the door was already open, with the warning pattern
\* if now - openTime > threshold and the open pattern otherwise; each pin
\* that is then written takes the level of that pattern.
C16_Patterns ==
    [][/\ (pc = "read_prev" /\ pc' # pc /\ ~isOpen) =>
            IF doorState = "closed"
            THEN pc' = "set_green" /\ want' = Green
            ELSE pc' = "lock_close"
       /\ (pc = "do_close" /\ pc' # pc) =>
            pc' = "set_green" /\ want' = Green
       /\ (pc = "read_prev" /\ pc' # pc /\ isOpen /\ doorState = "open") =>
            pc' = "lock_still"
       /\ (pc = "do_still" /\ pc' # pc) =>
            /\ pc' = "set_green"
            /\ want' = IF now - openTime > warningThreshold THEN Red ELSE Yellow
       /\ pc \in LightSteps =>
            /\ isOpen => previousState = "open"
            /\ want = IF ~isOpen THEN Green
                      ELSE IF duration > warningThreshold THEN Red ELSE Yellow
       /\ (pc \in LightSteps /\ lights' # lights) =>
            lights' = [lights EXCEPT ![PinOf(pc)] = want[PinOf(pc)]]]_vars

\* A still-open call past the threshold has written the green and yellow
\* pins low and is about to write the red pin high.
C16_Witness ==
    /\ pc = "set_red"
    /\ isOpen
    /\ previousState = "open"
    /\ now - openTime > warningThreshold
    /\ want = Red
    /\ ~writeErr
    /\ AllPins
    /\ ~lights.green
    /\ ~lights.yellow

\* C17: whenever the door state is "open", openTime is set (not the zero
\* time) and not later than now, and it is the instant of the latest
\* "Door Opened" event; so every reading of an open door a caller holds
\* carries a duration counted from a set openTime, within 0 .. callAt - 1.
C17_OpenTimeSet ==
    /\ doorState = "open" =>
          /\ openTime # 0
          /\ openTime <= now
          /\ lastEvent.status = "opened"
    /\ (lastRead # NoReading /\ lastRead.state = "open") =>
          /\ lastRead.open_time >= 0
          /\ lastRead.open_time < callAt

\* A caller holds a reading of the open door taken after the opening tick.
C17_Witness ==
    /\ rd = "returned"
    /\ lastRead.state = "open"
    /\ doorState = "open"
    /\ openTime > 1
    /\ lastRead.open_time = callAt - openTime
    /\ lastRead.open_time > 0

\* C18: a configuration that Validate accepts has a warning threshold > 0.
\* (Fails: Validate replaces 0 by the default and checks nothing else, so a
\* negative warning_time is accepted as it is.)
C18_PositiveThreshold == pc = "validated" => cfg.WarningTime > 0

\* C19: Close can be called again and again, whatever the goroutine and the
\* callers are doing: every call finds Close ready to return, leaves the
\* context cancelled and touches neither the door state, the indicators,
\* the goroutine nor a read; a call that finds the context already
\* cancelled changes nothing at all.  A cancelled context stays cancelled
\* and a goroutine that has exited stays so, with the door state as it was.
C19_Idempotent ==
    [][/\ closes < MaxCloses => ENABLED Close
       /\ closes' # closes =>
            /\ closes' = closes + 1
            /\ cancelled'
            /\ UNCHANGED <<cfg, dataClient, now, mu, doorVars, lights, pollVars,
                           logVars, readVars, tick, ticksAfter>>
            /\ cancelled => UNCHANGED cancelled
       /\ cancelled => cancelled'
       /\ pc = "exited" => UNCHANGED <<pc, doorVars, lights>>]_vars

\* Close has been called twice and the goroutine has exited; the door is
\* still recorded open and a read is in progress.
C19_Witness ==
    /\ closes >= 2
    /\ cancelled
    /\ pc = "exited"
    /\ doorState = "open"
    /\ openTime > 0
    /\ rd = "locked"

\* The positions between the read of previousState and the update that
\* acts on it.
Acting == {"lock_open", "do_open", "lock_still", "do_still", "lock_close",
           "do_close"}

\* C20: between the critical section that reads previousState and the one
\* that acts on it nobody else writes the door state: whatever reads
\* interleave, the state at the update is the state that was observed, so
\* Closed -> Open starts from closed, Open -> Closed and the still-open
\* duration from open.
C20_CheckThenAct ==
    /\ pc \in Acting => previousState = doorState
    /\ pc \in {"lock_open", "do_open"} => doorState = "closed" /\ isOpen
    /\ pc \in {"lock_still", "do_still"} => doorState = "open" /\ isOpen
    /\ pc \in {"lock_close", "do_close"} => doorState = "open" /\ ~isOpen

\* A read holds the mutex between the goroutine's observation of an open
\* door and its Open -> Closed update.
C20_Witness ==
    /\ pc = "lock_close"
    /\ rd = "locked"
    /\ mu = "reader"
    /\ previousState = "open"
    /\ doorState = "open"
    /\ ~isOpen

\* C21: within one open interval the warning never goes back.  A still-open
\* call of monitorLoop that follows a call which chose the warning pattern
\* chooses the warning pattern again (so no later call of the interval
\* chooses the open pattern), and a read of the open door made by a caller
\* that holds a reading of the same interval with is_warning = true returns
\* is_warning = true again.
C21_WarningMonotonic ==
    [][/\ (pc = "do_still" /\ pc' # pc /\ outcome = "warning") =>
            want' = Red
       /\ (ReadStep /\ doorState = "open" /\ lastRead.err = "nil"
              /\ lastRead.state = "open" /\ callAt >= openTime
              /\ lastRead.is_warning) =>
            /\ lastRead'.state = "open"
            /\ lastRead'.is_warning]_vars

\* The call after a warning call has chosen the warning pattern again, while
\* a caller that holds an earlier reading with is_warning = true of this
\* open interval is reading once more.
C21_Witness ==
    /\ pc = "set_green"
    /\ outcome = "warning"
    /\ isOpen
    /\ want = Red
    /\ doorState = "open"
    /\ rd = "locked"
    /\ lastRead.state = "open"
    /\ lastRead.is_warning
    /\ callAt >= openTime
    /\ now > callAt

====
